---- MODULE Spec2Model ----
(***************************************************************************)
(* Request-scoped logging context of src/main.py: the HTTP middleware      *)
(* logging_context_middleware registered by create_app, the context store  *)
(* it writes through set_session / set_endpoint, and the logging sink      *)
(* that reads the store.                                                   *)
(*                                                                         *)
(* A Python str is a finite sequence of tokens (<<>> is the empty string), *)
(* an Optional[str] is a tagged record so that None and "" stay apart.     *)
(***************************************************************************)
EXTENDS Integers, Sequences, FiniteSets, TLC

\* ------------------------------------------------------------------------
\* Bounds
\* ------------------------------------------------------------------------
\* requests the server admits in one run, over all execution slots
MaxRequests == 2

\* invocations of create_app in one run
MaxApps == 3

\* execution slots (logical request tasks) and the task that handles no request
Slots == {"A", "B"}
Background == "bg"
Tasks == Slots \cup {Background}

\* ------------------------------------------------------------------------
\* Python values
\* ------------------------------------------------------------------------
None == [isNone |-> TRUE, val |-> <<>>]
Str(s) == [isNone |-> FALSE, val |-> s]

\* truth value of an Optional[str]: None and "" are falsy
Truthy(v) == ~v.isNone /\ v.val # <<>>

\* Python `a or b`
Or(a, b) == IF Truthy(a) THEN a ELSE b

\* ------------------------------------------------------------------------
\* Requests
\* ------------------------------------------------------------------------
HeaderName == <<"X-Session-Id">>
QueryName == <<"session_id">>

HeaderSets ==
  { {},
    { <<HeaderName, <<>> >> },
    { <<HeaderName, <<"H1">> >> } }

Targets ==
  { <<"/", "x">>,
    <<"/", "foo", "/", "bar", "?", "x", "=", "1">>,
    <<"/", "foo", "/", "bar", "/", "?", "x", "=", "1", "&", "session_id", "=", "Q1">>,
    <<"/", "x", "?", "session_id", "=">> }

Requests == [headers : HeaderSets, target : Targets]

NoRequest == [headers |-> {}, target |-> <<>>]

\* index of the first occurrence of token c in s, 0 when there is none
Find(s, c) ==
  IF \E i \in 1..Len(s) : s[i] = c
  THEN CHOOSE i \in 1..Len(s) : s[i] = c /\ \A j \in 1..(i-1) : s[j] # c
  ELSE 0

\* request.headers.get(name)
headers_get(request, name) ==
  IF \E h \in request.headers : h[1] = name
  THEN Str((CHOOSE h \in request.headers : h[1] = name)[2])
  ELSE None

\* the part of the request target after the first "?"
query_string(request) ==
  LET i == Find(request.target, "?")
  IN IF i = 0 THEN <<>> ELSE SubSeq(request.target, i + 1, Len(request.target))

RECURSIVE Split(_, _)
Split(s, sep) ==
  LET i == Find(s, sep)
  IN IF i = 0 THEN <<s>>
     ELSE <<SubSeq(s, 1, i - 1)>> \o Split(SubSeq(s, i + 1, Len(s)), sep)

\* one name=value piece of the query string, blank values kept
Pair(piece) ==
  LET i == Find(piece, "=")
  IN IF i = 0 THEN <<piece, <<>> >>
     ELSE <<SubSeq(piece, 1, i - 1), SubSeq(piece, i + 1, Len(piece))>>

NonEmpty(p) == p # <<>>

\* request.query_params.get(name)
query_params_get(request, name) ==
  LET pieces == SelectSeq(Split(query_string(request), "&"), NonEmpty)
      Named(p) == Pair(p)[1] = name
      matches == SelectSeq(pieces, Named)
  IN IF matches = <<>> THEN None ELSE Str(Pair(matches[Len(matches)])[2])

\* request.url.path with the trailing slash normalised away
url_path_stripped(request) ==
  LET i == Find(request.target, "?")
      p == IF i = 0 THEN request.target ELSE SubSeq(request.target, 1, i - 1)
  IN Str(IF Len(p) > 1 /\ p[Len(p)] = "/" THEN SubSeq(p, 1, Len(p) - 1) ELSE p)

\* request.url.path
url_path(request) ==
  LET i == Find(request.target, "?")
  IN Str(IF i = 0 THEN request.target ELSE SubSeq(request.target, 1, i - 1))

\* extraction that reads the header only
session_id_header_only(request) ==
  headers_get(request, HeaderName)

\* extraction that defaults to the empty string
session_id_default_empty(request) ==
  Or(Or(headers_get(request, HeaderName), query_params_get(request, QueryName)), Str(<<>>))

\* session_id = request.headers.get("X-Session-Id") or request.query_params.get("session_id")
session_id(request) ==
  Or(headers_get(request, HeaderName), query_params_get(request, QueryName))

\* ------------------------------------------------------------------------
\* Context store: one slot per logical task
\* ------------------------------------------------------------------------
AllAbsent == [session |-> None, endpoint |-> None]

set_session(store, task, v) == [store EXCEPT ![task].session = v]
set_endpoint(store, task, v) == [store EXCEPT ![task].endpoint = v]
getCurrent(store, task) == store[task]

\* ------------------------------------------------------------------------
\* State
\* ------------------------------------------------------------------------
VARIABLES
  pc,       \* per task: position of the middleware
  req,      \* per slot: the request being handled
  ctx,      \* the context store
  calls,    \* per slot: calls made by the middleware for the current request
  logged,   \* per task: latest record emitted by the logging sink
  outcome,  \* per slot: how the latest finished request left the middleware
  handled,  \* per slot: what call_next produced for the current request
  left,     \* per slot: what left the middleware for the current request
  prev,     \* per slot: session id the previous request of the slot passed to set_session
  admitted, \* number of requests handed to the middleware so far
  router,            \* the route table supplied by route.restapi
  loggingConfigured, \* number of calls of configure_logging
  apps,              \* the application instances constructed so far, in order
  building,          \* steps done by the create_app invocation in progress
  returned           \* number of create_app invocations that have returned

reqVars == <<pc, req, ctx, calls, logged, outcome, handled, left, prev, admitted>>
appVars == <<router, loggingConfigured, apps, building, returned>>
vars == <<reqVars, appVars>>

Call(op, arg) == [op |-> op, arg |-> arg]
NoLog == [phase |-> "none", value |-> AllAbsent]

\* responses the route handlers return and errors they raise
Responses == {"R1", "R2"}
Errors == {"E1", "E2"}
Result(kind, val) == [kind |-> kind, val |-> val]
NoResult == Result("none", "none")

\* routes the application shell has before any router is attached
DocRoutes == {"/docs", "/redoc", "/openapi.json"}

\* route tables the external module may supply
RoutePaths == {"/x", "/foo/bar", "/foo/bar/"}
RouteTables == SUBSET RoutePaths

Middleware == "logging_context_middleware"
Shell == [routes |-> DocRoutes, middleware |-> <<>>]

\* the steps of create_app, in program order
CreateOrder == <<"configure_logging", "FastAPI", "include_router", "middleware">>

\* no request has been handled yet
Idle ==
  /\ pc = [t \in Tasks |-> IF t = Background THEN "background" ELSE "idle"]
  /\ req = [t \in Slots |-> NoRequest]
  /\ ctx = [t \in Tasks |-> AllAbsent]
  /\ calls = [t \in Slots |-> <<>>]
  /\ logged = [t \in Tasks |-> NoLog]
  /\ outcome = [t \in Slots |-> "none"]
  /\ handled = [t \in Slots |-> NoResult]
  /\ left = [t \in Slots |-> NoResult]
  /\ prev = [t \in Slots |-> None]
  /\ admitted = 0

\* the module has been loaded: app = create_app() has run once
Init ==
  /\ Idle
  /\ router = RoutePaths
  /\ loggingConfigured = 1
  /\ apps = <<[routes |-> DocRoutes \cup RoutePaths, middleware |-> <<Middleware>>]>>
  /\ building = <<>>
  /\ returned = 1

\* before the module is loaded, for any supplied route table
InitLoad ==
  /\ Idle
  /\ router \in RouteTables
  /\ loggingConfigured = 0
  /\ apps = <<>>
  /\ building = <<>>
  /\ returned = 0

\* line 77: configure_logging()
ConfigureLogging ==
  /\ building = <<>>
  /\ returned < MaxApps
  /\ loggingConfigured' = loggingConfigured + 1
  /\ building' = <<"configure_logging">>
  /\ UNCHANGED <<reqVars, router, apps, returned>>

\* construction that hands out one module-level instance
ConstructApp_singleton ==
  /\ building = <<"configure_logging">>
  /\ apps' = IF apps = <<>> THEN <<Shell>> ELSE apps
  /\ building' = Append(building, "FastAPI")
  /\ UNCHANGED <<reqVars, router, loggingConfigured, returned>>

\* lines 79-87: app = FastAPI(...)
ConstructApp ==
  /\ building = <<"configure_logging">>
  /\ apps' = Append(apps, Shell)
  /\ building' = Append(building, "FastAPI")
  /\ UNCHANGED <<reqVars, router, loggingConfigured, returned>>

\* line 90: app.include_router(router, prefix="")
IncludeRouter ==
  /\ building = <<"configure_logging", "FastAPI">>
  /\ apps' = [apps EXCEPT ![Len(apps)].routes = @ \cup router]
  /\ building' = Append(building, "include_router")
  /\ UNCHANGED <<reqVars, router, loggingConfigured, returned>>

\* lines 93-104: @app.middleware("http")
RegisterMiddleware ==
  /\ building = <<"configure_logging", "FastAPI", "include_router">>
  /\ apps' = [apps EXCEPT ![Len(apps)].middleware = <<Middleware>> \o @]
  /\ building' = Append(building, "middleware")
  /\ UNCHANGED <<reqVars, router, loggingConfigured, returned>>

\* line 106: return app
ReturnApp ==
  /\ building = CreateOrder
  /\ building' = <<>>
  /\ returned' = returned + 1
  /\ UNCHANGED <<reqVars, router, loggingConfigured, apps>>

NextApp ==
  \/ ConfigureLogging
  \/ ConstructApp
  \/ IncludeRouter
  \/ RegisterMiddleware
  \/ ReturnApp

AppSpec == InitLoad /\ [][NextApp]_vars

\* the server hands a request to the middleware in slot t
Arrive(t) ==
  /\ pc[t] \in {"idle", "ContextCleared"}
  /\ admitted < MaxRequests
  /\ \E r \in Requests : req' = [req EXCEPT ![t] = r]
  /\ pc' = [pc EXCEPT ![t] = "Entered"]
  /\ calls' = [calls EXCEPT ![t] = <<>>]
  /\ logged' = [logged EXCEPT ![t] = NoLog]
  /\ admitted' = admitted + 1
  /\ prev' = [prev EXCEPT ![t] = IF calls[t] = <<>> THEN @ ELSE calls[t][1].arg]
  /\ handled' = [handled EXCEPT ![t] = NoResult]
  /\ left' = [left EXCEPT ![t] = NoResult]
  /\ UNCHANGED <<ctx, outcome, appVars>>

\* entry with the arguments of the two setters exchanged
Enter_swapped(t) ==
  /\ pc[t] = "Entered"
  /\ LET sid == session_id(req[t])
         path == url_path(req[t])
     IN /\ ctx' = set_endpoint(set_session(ctx, t, path), t, sid)
        /\ calls' = [calls EXCEPT ![t] =
                       @ \o <<Call("set_session", path), Call("set_endpoint", sid),
                              Call("call_next", None)>>]
  /\ pc' = [pc EXCEPT ![t] = "HandlerRunning"]
  /\ UNCHANGED <<req, logged, outcome, handled, left, prev, admitted, appVars>>

\* entry that suspends between set_session and set_endpoint
Enter_suspending(t) ==
  /\ pc[t] = "Entered"
  /\ LET sid == session_id(req[t])
         path == url_path(req[t])
     IN IF calls[t] = <<>>
        THEN /\ ctx' = set_session(ctx, t, sid)
             /\ calls' = [calls EXCEPT ![t] = <<Call("set_session", sid)>>]
             /\ pc' = pc
        ELSE /\ ctx' = set_endpoint(ctx, t, path)
             /\ calls' = [calls EXCEPT ![t] =
                            @ \o <<Call("set_endpoint", path), Call("call_next", None)>>]
             /\ pc' = [pc EXCEPT ![t] = "HandlerRunning"]
  /\ UNCHANGED <<req, logged, outcome, handled, left, prev, admitted, appVars>>

\* entry that sets the context, clears it and returns without calling the handler
Enter_early_return(t) ==
  /\ pc[t] = "Entered"
  /\ LET sid == session_id(req[t])
         path == url_path(req[t])
     IN /\ ctx' = set_endpoint(set_session(ctx, t, None), t, None)
        /\ calls' = [calls EXCEPT ![t] =
                       @ \o <<Call("set_session", sid), Call("set_endpoint", path),
                              Call("set_session", None), Call("set_endpoint", None)>>]
  /\ pc' = [pc EXCEPT ![t] = "ContextCleared"]
  /\ UNCHANGED <<req, logged, outcome, handled, left, prev, admitted, appVars>>

\* entry that writes the two values for every task, not only the running one
Enter_process_wide(t) ==
  /\ pc[t] = "Entered"
  /\ LET sid == session_id(req[t])
         path == url_path(req[t])
     IN /\ ctx' = [u \in Tasks |-> [session |-> sid, endpoint |-> path]]
        /\ calls' = [calls EXCEPT ![t] =
                       @ \o <<Call("set_session", sid), Call("set_endpoint", path),
                              Call("call_next", None)>>]
  /\ pc' = [pc EXCEPT ![t] = "HandlerRunning"]
  /\ UNCHANGED <<req, logged, outcome, handled, left, prev, admitted, appVars>>

\* entry that sets the endpoint before the session id
Enter_endpoint_first(t) ==
  /\ pc[t] = "Entered"
  /\ LET sid == session_id(req[t])
         path == url_path(req[t])
     IN /\ ctx' = set_session(set_endpoint(ctx, t, path), t, sid)
        /\ calls' = [calls EXCEPT ![t] =
                       @ \o <<Call("set_endpoint", path), Call("set_session", sid),
                              Call("call_next", None)>>]
  /\ pc' = [pc EXCEPT ![t] = "HandlerRunning"]
  /\ UNCHANGED <<req, logged, outcome, handled, left, prev, admitted, appVars>>

\* lines 96-99 up to the await: extract, set_session, set_endpoint, call_next
Enter(t) ==
  /\ pc[t] = "Entered"
  /\ LET sid == session_id(req[t])
         path == url_path(req[t])
     IN /\ ctx' = set_endpoint(set_session(ctx, t, sid), t, path)
        /\ calls' = [calls EXCEPT ![t] =
                       @ \o <<Call("set_session", sid), Call("set_endpoint", path),
                              Call("call_next", None)>>]
  /\ pc' = [pc EXCEPT ![t] = "HandlerRunning"]
  /\ UNCHANGED <<req, logged, outcome, handled, left, prev, admitted, appVars>>

\* call_next produced `result` and the same value leaves the middleware
Passes(t, result) ==
  /\ handled' = [handled EXCEPT ![t] = result]
  /\ left' = [left EXCEPT ![t] = result]

\* call_next produced `result` and the middleware puts `other` in its place
Replaces(t, result, other) ==
  /\ handled' = [handled EXCEPT ![t] = result]
  /\ left' = [left EXCEPT ![t] = other]

\* an exit that skips the clearing step
Leave_unclear(t, how) ==
  /\ pc[t] = "HandlerRunning"
  /\ pc' = [pc EXCEPT ![t] = "ContextCleared"]
  /\ outcome' = [outcome EXCEPT ![t] = how]
  /\ UNCHANGED <<req, ctx, calls, logged, prev, admitted, appVars>>

\* a finally block that clears the session id and forgets the endpoint
Finally_session_only(t, how) ==
  /\ pc[t] = "HandlerRunning"
  /\ ctx' = set_session(ctx, t, None)
  /\ calls' = [calls EXCEPT ![t] = @ \o <<Call("set_session", None)>>]
  /\ pc' = [pc EXCEPT ![t] = "ContextCleared"]
  /\ outcome' = [outcome EXCEPT ![t] = how]
  /\ UNCHANGED <<req, logged, prev, admitted, appVars>>

\* a finally block that clears the endpoint and forgets the session id
Finally_endpoint_only(t, how) ==
  /\ pc[t] = "HandlerRunning"
  /\ ctx' = set_endpoint(ctx, t, None)
  /\ calls' = [calls EXCEPT ![t] = @ \o <<Call("set_endpoint", None)>>]
  /\ pc' = [pc EXCEPT ![t] = "ContextCleared"]
  /\ outcome' = [outcome EXCEPT ![t] = how]
  /\ UNCHANGED <<req, logged, prev, admitted, appVars>>

\* the finally block: set_session(None); set_endpoint(None)
Finally(t, how) ==
  /\ pc[t] = "HandlerRunning"
  /\ ctx' = set_endpoint(set_session(ctx, t, None), t, None)
  /\ calls' = [calls EXCEPT ![t] =
                 @ \o <<Call("set_session", None), Call("set_endpoint", None)>>]
  /\ pc' = [pc EXCEPT ![t] = "ContextCleared"]
  /\ outcome' = [outcome EXCEPT ![t] = how]
  /\ UNCHANGED <<req, logged, prev, admitted, appVars>>

Return_unclear(t) ==
  \E r \in Responses : Leave_unclear(t, "response") /\ Passes(t, Result("response", r))

\* the middleware answers with a response of its own
Return_rewritten(t) ==
  \E r \in Responses :
    Finally(t, "response") /\ Replaces(t, Result("response", r), Result("response", "R1"))

\* call_next returns a response: return response, through finally
Return(t) ==
  \E r \in Responses : Finally(t, "response") /\ Passes(t, Result("response", r))

Raise_unclear(t) ==
  \E e \in Errors : Leave_unclear(t, "error") /\ Passes(t, Result("error", e))

\* the middleware catches the error and answers with a response
Raise_swallowed(t) ==
  \E e \in Errors :
    Finally(t, "error") /\ Replaces(t, Result("error", e), Result("response", "R1"))

\* call_next raises: the error leaves through finally
Raise(t) ==
  \E e \in Errors : Finally(t, "error") /\ Passes(t, Result("error", e))

Cancel_unclear(t) ==
  Leave_unclear(t, "cancelled") /\ Passes(t, Result("cancelled", "CancelledError"))

\* the task is cancelled while awaiting call_next: CancelledError leaves through finally
Cancel(t) ==
  Finally(t, "cancelled") /\ Passes(t, Result("cancelled", "CancelledError"))

\* the statements of the entry that may fail, and the error each raises
EntryPoints == <<"extract", "set_session", "set_endpoint">>
EntryError(k) == Result("error", EntryPoints[k])

\* the calls of the entry made up to and including the one that fails at point k
EntryCalls(t, k) ==
  SubSeq(<<Call("set_session", session_id(req[t])), Call("set_endpoint", url_path(req[t]))>>,
         1, k - 1)

\* an entry whose try statement starts after the two set calls
EntryFail_outside_try(t) ==
  /\ pc[t] = "Entered"
  /\ \E k \in 1..Len(EntryPoints) :
       /\ ctx' = IF k = 3 THEN set_session(ctx, t, session_id(req[t])) ELSE ctx
       /\ calls' = [calls EXCEPT ![t] = EntryCalls(t, k)]
       /\ left' = [left EXCEPT ![t] = EntryError(k)]
  /\ pc' = [pc EXCEPT ![t] = "ContextCleared"]
  /\ outcome' = [outcome EXCEPT ![t] = "entry_error"]
  /\ UNCHANGED <<req, logged, handled, prev, admitted, appVars>>

\* line 96, 97 or 98 raises: call_next is not reached, the finally block
\* runs and the error leaves. Whether the failing setter wrote before it
\* raised does not show, the clearing calls overwrite both fields.
EntryFail(t) ==
  /\ pc[t] = "Entered"
  /\ \E k \in 1..Len(EntryPoints) :
       /\ ctx' = set_endpoint(set_session(ctx, t, None), t, None)
       /\ calls' = [calls EXCEPT ![t] =
                      EntryCalls(t, k) \o <<Call("set_session", None), Call("set_endpoint", None)>>]
       /\ left' = [left EXCEPT ![t] = EntryError(k)]
  /\ pc' = [pc EXCEPT ![t] = "ContextCleared"]
  /\ outcome' = [outcome EXCEPT ![t] = "entry_error"]
  /\ UNCHANGED <<req, logged, handled, prev, admitted, appVars>>

\* the logging sink emits a record in task t and reads the store
Log(t) ==
  /\ pc[t] # "idle"
  /\ logged' = [logged EXCEPT ![t] = [phase |-> pc[t], value |-> getCurrent(ctx, t)]]
  /\ logged'[t] # logged[t]
  /\ UNCHANGED <<pc, req, ctx, calls, outcome, handled, left, prev, admitted, appVars>>

Next ==
  \/ \E t \in Slots : Arrive(t)
  \/ \E t \in Slots : Enter(t)
  \/ \E t \in Slots : Return(t)
  \/ \E t \in Slots : Raise(t)
  \/ \E t \in Slots : Cancel(t)
  \/ \E t \in Tasks : Log(t)

Spec == Init /\ [][Next]_vars

\* the middleware with failures of its entry statements added
NextFault ==
  \/ Next
  \/ \E t \in Slots : EntryFail(t)

FaultSpec == Init /\ [][NextFault]_vars

\* the event loop runs a ready middleware up to its await, and the awaited
\* handler eventually returns, raises or is cancelled
Fairness ==
  \A t \in Slots :
    /\ WF_vars(Enter(t))
    /\ WF_vars(Return(t) \/ Raise(t) \/ Cancel(t))

\* requests offered in the fair runs: no session id, an empty one, a header one
FairRequests ==
  { [headers |-> {}, target |-> <<"/", "x">>],
    [headers |-> { <<HeaderName, <<>> >> }, target |-> <<"/", "x", "?", "session_id", "=">>],
    [headers |-> { <<HeaderName, <<"H1">> >> }, target |-> <<"/", "x">>] }

NextFair ==
  \/ \E t \in Slots : Arrive(t) /\ req'[t] \in FairRequests
  \/ \E t \in Slots : Enter(t)
  \/ \E t \in Slots : Return(t)
  \/ \E t \in Slots : Raise(t)
  \/ \E t \in Slots : Cancel(t)
  \/ \E t \in Tasks : Log(t)

FairSpec == Init /\ [][NextFair]_vars /\ Fairness

TypeOK ==
  /\ pc \in [Tasks -> {"idle", "Entered", "HandlerRunning", "ContextCleared", "background"}]
  /\ \A t \in Slots : req[t] \in Requests \cup {NoRequest}
  /\ admitted \in 0..MaxRequests

\* ------------------------------------------------------------------------
\* Properties
\* ------------------------------------------------------------------------
HeaderOf(t) == headers_get(req[t], HeaderName)
QueryOf(t) == query_params_get(req[t], QueryName)
Own(t) == [session |-> session_id(req[t]), endpoint |-> url_path(req[t])]

\* C1: isolation. Whatever the other slot is doing, the store read by a
\* request that is in its handler, and every record the logging sink emitted
\* while it was there, carries that request's own extracted session id and
\* its own path.
Isolation ==
  \A t \in Slots :
    /\ pc[t] = "HandlerRunning" => getCurrent(ctx, t) = Own(t)
    /\ logged[t].phase = "HandlerRunning" => logged[t].value = Own(t)

\* two requests are in their handlers at once with different session ids and
\* different paths, and each has logged
IsolationWitness ==
  /\ pc["A"] = "HandlerRunning" /\ pc["B"] = "HandlerRunning"
  /\ logged["A"].phase = "HandlerRunning" /\ logged["B"].phase = "HandlerRunning"
  /\ Truthy(ctx["A"].session) /\ Truthy(ctx["B"].session)
  /\ ctx["A"].session # ctx["B"].session
  /\ ctx["A"].endpoint # ctx["B"].endpoint

\* C2: cleanup on success. Once the handler has returned a response and the
\* middleware has returned it, session id and endpoint are both absent.
CleanupOnSuccess ==
  \A t \in Slots :
    (pc[t] = "ContextCleared" /\ outcome[t] = "response") => getCurrent(ctx, t) = AllAbsent

\* a request that carried a session id has completed normally
CleanupOnSuccessWitness ==
  \E t \in Slots :
    /\ pc[t] = "ContextCleared" /\ outcome[t] = "response"
    /\ Truthy(calls[t][1].arg)

\* C3: cleanup on failure. Once the handler's error has left the middleware,
\* session id and endpoint are both absent.
CleanupOnFailure ==
  \A t \in Slots :
    (pc[t] = "ContextCleared" /\ outcome[t] = "error") => getCurrent(ctx, t) = AllAbsent

\* a request that carried a session id has failed in its handler
CleanupOnFailureWitness ==
  \E t \in Slots :
    /\ pc[t] = "ContextCleared" /\ outcome[t] = "error"
    /\ Truthy(calls[t][1].arg)

\* C4: cancellation cleanup. A request cancelled while awaiting the handler
\* ends with the two clearing calls, its slot is all-absent afterwards, and
\* the next request placed in that slot reads all-absent until its own set.
CancellationCleanup ==
  \A t \in Slots :
    outcome[t] = "cancelled" =>
      /\ pc[t] = "ContextCleared" =>
           /\ getCurrent(ctx, t) = AllAbsent
           /\ Len(calls[t]) = 5
           /\ calls[t][4] = Call("set_session", None)
           /\ calls[t][5] = Call("set_endpoint", None)
           /\ (logged[t].phase = "ContextCleared" => logged[t].value = AllAbsent)
      /\ pc[t] = "Entered" =>
           /\ getCurrent(ctx, t) = AllAbsent
           /\ (logged[t].phase = "Entered" => logged[t].value = AllAbsent)

\* a request with a session id was cancelled, and the slot is being reused by
\* a request that has logged before its own set
CancellationCleanupWitness ==
  \E t \in Slots :
    /\ outcome[t] = "cancelled" /\ pc[t] = "Entered"
    /\ Truthy(prev[t])
    /\ logged[t].phase = "Entered"

\* C5: first non-absent wins. The value passed to set_session is the header
\* value whenever the header is present (the empty string included),
\* otherwise the query parameter value whenever it is present, otherwise
\* absent.
FirstNonAbsentWins ==
  \A t \in Slots :
    Len(calls[t]) >= 1 =>
      calls[t][1] = Call("set_session",
                         IF ~HeaderOf(t).isNone THEN HeaderOf(t)
                         ELSE IF ~QueryOf(t).isNone THEN QueryOf(t)
                         ELSE None)

\* C6: header precedence. With both the header (value H) and the query
\* parameter (value Q) present, the session id stored while the handler runs
\* is H.
HeaderPrecedence ==
  \A t \in Slots :
    (pc[t] = "HandlerRunning" /\ ~HeaderOf(t).isNone /\ ~QueryOf(t).isNone)
      => getCurrent(ctx, t).session = HeaderOf(t)

\* C7: query fallback. With no header and the query parameter present with
\* value Q, the session id stored while the handler runs is Q.
QueryFallback ==
  \A t \in Slots :
    (pc[t] = "HandlerRunning" /\ HeaderOf(t).isNone /\ ~QueryOf(t).isNone)
      => getCurrent(ctx, t).session = QueryOf(t)

\* a request without the header and with session_id=Q1 is in its handler
QueryFallbackWitness ==
  \E t \in Slots :
    /\ pc[t] = "HandlerRunning"
    /\ HeaderOf(t).isNone
    /\ QueryOf(t) = Str(<<"Q1">>)

\* C8: no identifier. With neither the header nor the query parameter, the
\* value passed to set_session at entry is absent, not the empty string.
NoIdentifier ==
  \A t \in Slots :
    (Len(calls[t]) >= 1 /\ HeaderOf(t).isNone /\ QueryOf(t).isNone)
      => /\ calls[t][1].op = "set_session"
         /\ calls[t][1].arg.isNone
         /\ calls[t][1].arg # Str(<<>>)

\* a request with neither identifier has made its entry calls
NoIdentifierWitness ==
  \E t \in Slots :
    /\ Len(calls[t]) >= 1
    /\ req[t].headers = {}
    /\ QueryOf(t).isNone

\* C9: endpoint exactness. The endpoint stored while the handler runs is the
\* request target up to, and without, its first "?": nothing of the query
\* string, nothing removed, nothing rewritten.
EndpointExactness ==
  \A t \in Slots :
    pc[t] = "HandlerRunning" =>
      LET e == getCurrent(ctx, t).endpoint
          n == Len(e.val)
          target == req[t].target
      IN /\ ~e.isNone
         /\ n <= Len(target)
         /\ SubSeq(target, 1, n) = e.val
         /\ (n = Len(target) \/ target[n + 1] = "?")
         /\ \A i \in 1..n : e.val[i] # "?"

\* a request for /foo/bar?x=1 is in its handler with endpoint /foo/bar
EndpointExactnessWitness ==
  \E t \in Slots :
    /\ pc[t] = "HandlerRunning"
    /\ req[t].target = <<"/", "foo", "/", "bar", "?", "x", "=", "1">>
    /\ ctx[t].endpoint = Str(<<"/", "foo", "/", "bar">>)

\* C10: sequential re-entry. In a slot that has already finished a request,
\* the store is all-absent from the end of one request to the set step of
\* the next, and a later request whose session id differs from the previous
\* request's reads its own session id in its handler, never the previous one.
SequentialReentry ==
  \A t \in Slots :
    outcome[t] # "none" =>
      /\ pc[t] \in {"ContextCleared", "Entered"} => ctx[t] = AllAbsent
      /\ logged[t].phase \in {"ContextCleared", "Entered"} => logged[t].value = AllAbsent
      /\ (pc[t] = "HandlerRunning" /\ calls[t][1].arg # prev[t]) =>
           /\ ctx[t].session = calls[t][1].arg
           /\ ctx[t].session # prev[t]
           /\ (logged[t].phase = "HandlerRunning" => logged[t].value.session # prev[t])

\* requests were handled one after another in one slot only, the later one
\* carries a session id different from the earlier one's and has logged in
\* its handler
SequentialReentryWitness ==
  /\ pc["B"] = "idle"
  /\ admitted >= 2
  /\ pc["A"] = "HandlerRunning"
  /\ Truthy(prev["A"]) /\ Truthy(ctx["A"].session)
  /\ prev["A"] # ctx["A"].session
  /\ logged["A"].phase = "HandlerRunning"

\* the order of the middleware's calls for one request
CallOrder == <<"set_session", "set_endpoint", "call_next", "set_session", "set_endpoint">>

\* C11: per-request ordering. The calls a request makes are, in this order,
\* set_session, set_endpoint, the handler invocation, and the two clearing
\* calls; from its set to its clear the context it reads holds exactly what
\* its own two set calls wrote, whatever the other slot writes meanwhile.
PerRequestOrdering ==
  \A t \in Slots :
    /\ Len(calls[t]) <= Len(CallOrder)
    /\ \A i \in 1..Len(calls[t]) : calls[t][i].op = CallOrder[i]
    /\ \A i \in 4..Len(calls[t]) : calls[t][i].arg = None
    /\ (Len(calls[t]) >= 3 /\ pc[t] = "HandlerRunning") =>
         /\ getCurrent(ctx, t).session = calls[t][1].arg
         /\ getCurrent(ctx, t).endpoint = calls[t][2].arg
    /\ (Len(calls[t]) >= 3 /\ logged[t].phase = "HandlerRunning") =>
         /\ logged[t].value.session = calls[t][1].arg
         /\ logged[t].value.endpoint = calls[t][2].arg

\* one request has gone through all five calls while another, with a
\* different session id, is between its set and its clear and has logged
PerRequestOrderingWitness ==
  /\ pc["A"] = "ContextCleared" /\ Len(calls["A"]) = 5
  /\ Truthy(calls["A"][1].arg)
  /\ pc["B"] = "HandlerRunning" /\ logged["B"].phase = "HandlerRunning"
  /\ Truthy(ctx["B"].session)
  /\ ctx["B"].session # calls["A"][1].arg

\* C12: error propagation. An error raised by the handler leaves the
\* middleware as that same error, never as a response or as another error,
\* and when it has left, the two clearing calls have been made and the
\* request's context is all-absent.
ErrorPropagation ==
  \A t \in Slots :
    handled[t].kind = "error" =>
      /\ left[t] = handled[t]
      /\ Len(calls[t]) = 5
      /\ calls[t][4] = Call("set_session", None)
      /\ calls[t][5] = Call("set_endpoint", None)
      /\ getCurrent(ctx, t) = AllAbsent

\* the handler of a request with a session id raised E2 and E2 left the middleware
ErrorPropagationWitness ==
  \E t \in Slots :
    /\ handled[t] = Result("error", "E2")
    /\ left[t] = Result("error", "E2")
    /\ outcome[t] = "error"
    /\ Truthy(calls[t][1].arg)

\* C13: response pass-through. The response the handler returned is the
\* response the middleware returns, and a step of the middleware for one
\* request changes nothing of the request, of the logging sink's records or
\* of any other task's context: only its own session id and endpoint.
ResponsePassThrough ==
  [][\A t \in Slots :
       /\ handled'[t].kind = "response" => left'[t] = handled'[t]
       /\ (pc[t] \in {"Entered", "HandlerRunning"} /\ pc'[t] # pc[t]) =>
            /\ req' = req
            /\ logged' = logged
            /\ \A u \in Tasks \ {t} : ctx'[u] = ctx[u]]_vars

\* the handler returned R2 to a request and R2 left the middleware, while
\* the other slot is in its handler with its context set
ResponsePassThroughWitness ==
  \E t \in Slots :
    /\ handled[t] = Result("response", "R2")
    /\ left[t] = Result("response", "R2")
    /\ outcome[t] = "response"
    /\ \E u \in Slots \ {t} : pc[u] = "HandlerRunning" /\ Truthy(ctx[u].session)

\* C14: default for non-request tasks. The task that handles no request
\* reads the all-absent context in every state, and every record the logging
\* sink emitted for it carries the all-absent context, also while requests
\* are in their handlers with session id and endpoint set.
BackgroundDefault ==
  /\ getCurrent(ctx, Background) = AllAbsent
  /\ logged[Background].value = AllAbsent

\* the background task has logged while both slots are in their handlers
\* with a session id set
BackgroundDefaultWitness ==
  /\ logged[Background].phase = "background"
  /\ \A t \in Slots : pc[t] = "HandlerRunning" /\ Truthy(ctx[t].session)

\* the steps of one request; ContextCleared -> Entered is the slot taking
\* its next request
Transitions ==
  { <<"idle", "Entered">>, <<"Entered", "HandlerRunning">>,
    <<"HandlerRunning", "ContextCleared">>, <<"ContextCleared", "Entered">> }

\* C15: per-request state machine. A request moves only from Entered, through
\* the two set calls, to HandlerRunning and from there to ContextCleared; a
\* request that has entered reaches ContextCleared when its handler
\* eventually returns, raises or is cancelled; after its clear the request
\* writes nothing more to the context store.
RequestStateMachine ==
  /\ [][\A t \in Slots :
          /\ pc'[t] # pc[t] => <<pc[t], pc'[t]>> \in Transitions
          /\ (pc[t] = "Entered" /\ pc'[t] # pc[t]) =>
               /\ Len(calls'[t]) = 3
               /\ calls'[t][1].op = "set_session" /\ calls'[t][2].op = "set_endpoint"
               /\ calls'[t][3].op = "call_next"
               /\ ctx'[t] = [session |-> calls'[t][1].arg, endpoint |-> calls'[t][2].arg]
          /\ pc[t] = "ContextCleared" =>
               /\ ctx'[t] = ctx[t]
               /\ (pc'[t] = "ContextCleared" => calls'[t] = calls[t])]_vars
  /\ \A t \in Slots : (pc[t] = "Entered") ~> (pc[t] = "ContextCleared")

\* a request with a session id has gone from entry to its clear after a cancellation
RequestStateMachineWitness ==
  \E t \in Slots :
    /\ pc[t] = "ContextCleared" /\ outcome[t] = "cancelled"
    /\ Len(calls[t]) = 5
    /\ Truthy(calls[t][1].arg)
    /\ logged[t].phase = "ContextCleared"

\* C16: the only suspension point is the await of the handler. No state
\* lies between the two set calls or between the two clearing calls of a
\* request, so no other request runs there; a suspended request has made
\* exactly its two set calls and the handler invocation, and its context
\* holds the extracted session id and the path.
SingleSuspensionPoint ==
  \A t \in Slots :
    /\ Len(calls[t]) \in {0, 3, 5}
    /\ pc[t] = "Entered" => calls[t] = <<>>
    /\ pc[t] = "HandlerRunning" =>
         /\ Len(calls[t]) = 3
         /\ getCurrent(ctx, t).session = session_id(req[t])
         /\ getCurrent(ctx, t).endpoint = url_path(req[t])
         /\ ~getCurrent(ctx, t).endpoint.isNone
    /\ pc[t] = "ContextCleared" => Len(calls[t]) = 5

\* both requests are suspended at the await, one with no session id and one
\* with a session id
SingleSuspensionPointWitness ==
  /\ pc["A"] = "HandlerRunning" /\ pc["B"] = "HandlerRunning"
  /\ ctx["A"].session = None
  /\ Truthy(ctx["B"].session)
  /\ ~ctx["A"].endpoint.isNone /\ ~ctx["B"].endpoint.isNone

\* C17: no stale values. A task whose context holds a session id or an
\* endpoint is a slot whose request is between its set and its clear, and the
\* values are the ones that request set; a record that carries a value was
\* emitted while its request was in the handler. Nothing a finished, failed
\* or cancelled request set is readable afterwards.
NoStaleValues ==
  \A u \in Tasks :
    /\ getCurrent(ctx, u) # AllAbsent =>
         /\ u \in Slots
         /\ pc[u] = "HandlerRunning"
         /\ Len(calls[u]) = 3
         /\ ctx[u] = [session |-> calls[u][1].arg, endpoint |-> calls[u][2].arg]
    /\ logged[u].value # AllAbsent =>
         /\ u \in Slots
         /\ logged[u].phase = "HandlerRunning"
         /\ pc[u] \in {"HandlerRunning", "ContextCleared"}

\* a request that carried a session id has failed and its slot has been read
\* afterwards, while the other slot's request is in its handler with its
\* values set
NoStaleValuesWitness ==
  \E t \in Slots :
    /\ pc[t] = "ContextCleared" /\ logged[t].phase = "ContextCleared"
    /\ outcome[t] = "error" /\ Truthy(calls[t][1].arg)
    /\ \E u \in Slots \ {t} : pc[u] = "HandlerRunning" /\ Truthy(ctx[u].session)

\* the instance a finished create_app returns
Assembled == [routes |-> DocRoutes \cup router, middleware |-> <<Middleware>>]

\* C18: create_app. The steps of an invocation are configure_logging, the
\* construction of the shell, the attachment of the route table and the
\* registration of the middleware, in this order; every invocation calls
\* configure_logging once and adds one instance; an instance that has been
\* returned is fully assembled and no later invocation changes it.
CreateAppOrder ==
  /\ [](/\ Len(building) <= Len(CreateOrder)
        /\ \A i \in 1..Len(building) : building[i] = CreateOrder[i]
        /\ loggingConfigured = returned + (IF building = <<>> THEN 0 ELSE 1)
        /\ Len(apps) = returned + (IF Len(building) >= 2 THEN 1 ELSE 0)
        /\ \A i \in 1..returned : apps[i] = Assembled)
  /\ [][/\ Len(apps') >= Len(apps)
        /\ \A i \in 1..returned : apps'[i] = apps[i]]_vars

\* create_app has returned twice for a non-empty route table and a third
\* invocation is registering its middleware
CreateAppOrderWitness ==
  /\ returned = 2
  /\ building = CreateOrder
  /\ Len(apps) = 3
  /\ loggingConfigured = 3
  /\ router # {}

\* C19: cleanup covers the entry steps. When the extraction, set_session or
\* set_endpoint fails, the handler is not invoked, the two clearing calls
\* are the last calls made, the request's context is all-absent and the
\* error of the failing statement leaves the middleware.
EntryFailureCleanup ==
  \A t \in Slots :
    (outcome[t] = "entry_error" /\ pc[t] = "ContextCleared") =>
      LET n == Len(calls[t])
      IN /\ \A i \in 1..n : calls[t][i].op # "call_next"
         /\ handled[t] = NoResult
         /\ n \in 2..4
         /\ calls[t][n - 1] = Call("set_session", None)
         /\ calls[t][n] = Call("set_endpoint", None)
         /\ getCurrent(ctx, t) = AllAbsent
         /\ (logged[t].phase = "ContextCleared" => logged[t].value = AllAbsent)
         /\ left[t] = EntryError(n - 1)

\* set_endpoint failed for a request whose session id had been set, and the
\* slot has been read afterwards
EntryFailureCleanupWitness ==
  \E t \in Slots :
    /\ outcome[t] = "entry_error" /\ pc[t] = "ContextCleared"
    /\ Len(calls[t]) = 4
    /\ Truthy(calls[t][1].arg)
    /\ left[t] = Result("error", "set_endpoint")
    /\ logged[t].phase = "ContextCleared"
====
